---- MODULE Spec2Model ----
(***************************************************************************)
(* Model of the weekly news digest job (api/cron.js, digest variant).      *)
(*                                                                         *)
(* One invocation of handler() is a run: it checks the environment, reads  *)
(* every configured feed, scores / filters / sorts the entries, drops the  *)
(* ones whose SHA-1 key is in the Upstash cache, posts one digest to Slack *)
(* and then marks the posted keys as seen for seven days.                  *)
(*                                                                         *)
(* Text (titles, summaries, keywords) is a sequence of one-character       *)
(* strings; URLs, keys and other opaque values are TLA+ strings.           *)
(***************************************************************************)
EXTENDS Integers, Sequences, FiniteSets, TLC

(***************************************************************************)
(* Bounds of the model.                                                    *)
(***************************************************************************)
\* most entries one run collects over all feeds (single-run specification)
MaxItems == 3
\* most entries one run collects over all feeds (specifications with several runs)
MaxItemsRuns == 1
\* largest configured POST_MAX_PER_RUN
MaxPostMax == 2
\* most invocations of the handler in a specification with several runs
MaxRuns == 2
\* most clock ticks (each of TickSeconds)
MaxTicks == 2
\* most chunks of text a title handed to scoreArticle is made of
MaxChunks == 2
\* most pieces a short summary handed to makeSummaryBullets is made of
MaxPieces == 5
\* largest maxBullets handed to makeSummaryBullets
MaxBullets == 3

(***************************************************************************)
(* JavaScript values.                                                      *)
(***************************************************************************)
Undefined == "undefined"
JsNull == "null"
\* an absent text property (text is a sequence of characters, see above)
UndefinedText == << "undefined" >>

\* ToBoolean of a string-valued or absent JavaScript value
\* (if (seen), if (!link), !process.env[k])
Truthy(v) == v \notin {Undefined, JsNull, ""}

\* a ?? b, for opaque values and for text
Coalesce(a, b) == IF a \in {Undefined, JsNull} THEN b ELSE a
CoalesceText(a, b) == IF a = UndefinedText THEN b ELSE a

(***************************************************************************)
(* Text helpers.                                                           *)
(***************************************************************************)
UpperChars ==
  << "A","B","C","D","E","F","G","H","I","J","K","L","M",
     "N","O","P","Q","R","S","T","U","V","W","X","Y","Z" >>
LowerChars ==
  << "a","b","c","d","e","f","g","h","i","j","k","l","m",
     "n","o","p","q","r","s","t","u","v","w","x","y","z" >>

toLowerCaseChar(c) ==
  IF \E k \in 1..26 : UpperChars[k] = c
  THEN LowerChars[CHOOSE k \in 1..26 : UpperChars[k] = c]
  ELSE c

\* String.prototype.toLowerCase
toLowerCase(s) == [i \in 1..Len(s) |-> toLowerCaseChar(s[i])]

\* String.prototype.includes
includes(txt, term) ==
  \E i \in 0..(Len(txt) - Len(term)) :
    \A j \in 1..Len(term) : txt[i + j] = term[j]

(***************************************************************************)
(* scoreArticle                                                            *)
(***************************************************************************)
high ==
  << <<"f","u","n","d","i","n","g">>,
     <<"r","a","i","s","e","s">>,
     <<"a","c","q","u","i","s","i","t","i","o","n">>,
     <<"a","c","q","u","i">>,
     <<"o","u","t","a","g","e">>,
     <<"b","r","e","a","c","h">>,
     <<"o","p","e","n"," ","s","o","u","r","c","e">>,
     <<"p","a","r","t","n","e","r","s","h","i","p">>,
     <<"l","a","u","n","c","h">>,
     <<"a","n","n","o","u","n","c","e","d">>,
     <<"m","i","l","e","s","t","o","n","e">>,
     <<"d","a","t","a"," ","c","e","n","t","e","r">>,
     <<"d","a","t","a","c","e","n","t","r","e">>,
     <<"c","o","l","o","c","a","t","i","o","n">>,
     <<"c","o","l","o">>,
     <<"h","y","p","e","r","s","c","a","l","e">>,
     <<"m","e","g","a","w","a","t","t">>,
     <<"g","r","i","d">>,
     <<"c","o","o","l","i","n","g">>,
     <<"l","i","q","u","i","d"," ","c","o","o","l","i","n","g">> >>

infra ==
  << <<"h","1","0","0">>,
     <<"h","2","0","0">>,
     <<"m","i","3","0","0">>,
     <<"g","p","u">>,
     <<"a","c","c","e","l","e","r","a","t","o","r">>,
     <<"n","v","i","d","i","a">>,
     <<"a","m","d">>,
     <<"i","n","t","e","l">> >>

\* the number of terms of a list that the text contains
CountMatches(txt, terms) ==
  Cardinality({k \in 1..Len(terms) : includes(txt, terms[k])})

\* a score that matches the terms against the text as it is written
scoreArticleAsWritten(title, contentSnippet) ==
  LET txt == title \o <<" ">> \o contentSnippet
  IN  3 * CountMatches(txt, high) + 2 * CountMatches(txt, infra)

scoreArticle(title, contentSnippet) ==
  LET txt == toLowerCase(title \o <<" ">> \o contentSnippet)
  IN  3 * CountMatches(txt, high) + 2 * CountMatches(txt, infra)

(***************************************************************************)
(* Configuration.                                                          *)
(***************************************************************************)
RequiredEnv ==
  << "SLACK_BOT_TOKEN", "SLACK_CHANNEL_ID", "UPSTASH_REDIS_REST", "UPSTASH_REDIS_TOKEN" >>

\* process.env[k]: not set, set to the empty string, or set
EnvValues == {Undefined, "", "set"}

\* Number(process.env.MIN_SCORE ?? "3")
MIN_SCORE == 3

\* the default RSS_FEEDS
RSS_FEEDS == << "https://techcrunch.com/feed/", "https://www.crn.com/news/data-center/rss.xml" >>

\* 7 * 86400, the expiry handed to upstashSetEx
SeenTtlSeconds == 7 * 86400

\* the step of the model's clock: half the retention window
TickSeconds == SeenTtlSeconds \div 2

(***************************************************************************)
(* sha1Hex: the SHA-1 digests of the URLs of the model, in hexadecimal.    *)
(***************************************************************************)
Url1 == "https://a.example/1"
Url2 == "https://b.example/2"
Urls == {Url1, Url2}

sha1Hex(input) ==
  CASE input = Url1 -> "289744d4b3e42e5de8ca3b2ac5a61098024d47d8"
    [] input = Url2 -> "dfa2296538778f5893e390f86ad71c417c1fa2c8"

CacheKeys == {sha1Hex(u) : u \in Urls}

(***************************************************************************)
(* Feeds: what parser.parseURL can answer.                                 *)
(***************************************************************************)
\* entries of a parsed feed (rss-parser items); absent properties are Undefined
EntryGridAmd ==
  [ title |-> <<"A","M","D"," ","g","r","i","d">>, link |-> Url1, guid |-> Undefined,
    contentSnippet |-> UndefinedText, content |-> UndefinedText,
    isoDate |-> "2026-01-05T00:00:00.000Z", pubDate |-> Undefined ]
EntryColoGuid ==
  [ title |-> <<"C","o","l","o">>, link |-> Undefined, guid |-> Url2,
    contentSnippet |-> UndefinedText, content |-> <<"n","e","w","s">>,
    isoDate |-> Undefined, pubDate |-> "Mon, 05 Jan 2026" ]
EntryColoSnippet ==
  [ title |-> UndefinedText, link |-> Url1, guid |-> Url2,
    contentSnippet |-> <<"c","o","l","o">>, content |-> UndefinedText,
    isoDate |-> Undefined, pubDate |-> Undefined ]
EntryGpu ==
  [ title |-> <<"G","P","U">>, link |-> Url2, guid |-> Undefined,
    contentSnippet |-> UndefinedText, content |-> UndefinedText,
    isoDate |-> Undefined, pubDate |-> Undefined ]
EntryNoLink ==
  [ title |-> <<"C","o","l","o">>, link |-> Undefined, guid |-> Undefined,
    contentSnippet |-> UndefinedText, content |-> UndefinedText,
    isoDate |-> Undefined, pubDate |-> Undefined ]

\* the entries each feed of RSS_FEEDS can carry; one story is carried by both
EntryPool ==
  << {EntryGridAmd, EntryColoSnippet, EntryNoLink},
     {EntryColoGuid, EntryGpu, EntryGridAmd} >>
\* the same for the specifications with several runs
EntryPoolRuns == << {EntryGridAmd}, {EntryColoGuid} >>

\* feed.title of a feed: the first feed has one, the second has none
FeedTitle(feedUrl) == IF feedUrl = RSS_FEEDS[1] THEN "TechCrunch" ELSE Undefined

SeqsUpTo(S, n) == UNION {[1..k -> S] : k \in 0..n}

\* what parser.parseURL(feedUrl) resolves to: a feed of at most n entries of the
\* pool, with or without an items property
FeedResults(feedUrl, pool, n) ==
  {[title |-> FeedTitle(feedUrl), hasItems |-> TRUE, items |-> its] :
     its \in SeqsUpTo(pool, n)}
  \cup {[title |-> FeedTitle(feedUrl), hasItems |-> FALSE, items |-> <<>>]}

\* feed.items ?? []
FeedItems(feed) == IF feed.hasItems THEN feed.items ELSE <<>>

\* the item the handler pushes for one entry of a feed
MakeItem(it, source) ==
  [ title |-> CoalesceText(it.title, <<>>),
    url |-> Coalesce(it.link, Coalesce(it.guid, "")),
    summary |-> CoalesceText(it.contentSnippet, CoalesceText(it.content, <<>>)),
    source |-> source,
    published |-> Coalesce(it.isoDate, Coalesce(it.pubDate, "")) ]

\* the inner loop over feed.items: entries without a link are skipped
RECURSIVE PushItems(_, _, _)
PushItems(items, entries, source) ==
  IF entries = <<>> THEN items
  ELSE LET it == Head(entries)
           link == Coalesce(it.link, Coalesce(it.guid, ""))
       IN  IF ~Truthy(link)
           THEN PushItems(items, Tail(entries), source)
           ELSE PushItems(Append(items, MakeItem(it, source)), Tail(entries), source)

(***************************************************************************)
(* Score, filter and sort.                                                 *)
(***************************************************************************)
\* items.map(it => ({...it, score}))
WithScore(it) ==
  [ title |-> it.title, url |-> it.url, summary |-> it.summary, source |-> it.source,
    published |-> it.published, score |-> scoreArticle(it.title, it.summary) ]

\* a comparator that sorts by ascending score
CompareScoreAscending(a, b) == a.score - b.score

\* the comparator of the sort: negative when a goes first
CompareScore(a, b) == b.score - a.score

\* Array.prototype.sort is stable: an element is inserted after every element
\* that does not compare greater than it
RECURSIVE InsertSorted(_, _)
InsertSorted(sorted, x) ==
  IF sorted = <<>> THEN <<x>>
  ELSE IF CompareScore(Head(sorted), x) <= 0
       THEN <<Head(sorted)>> \o InsertSorted(Tail(sorted), x)
       ELSE <<x>> \o sorted

RECURSIVE SortByScore(_)
SortByScore(s) ==
  IF s = <<>> THEN <<>>
  ELSE InsertSorted(SortByScore(SubSeq(s, 1, Len(s) - 1)), s[Len(s)])

KeepScore(it) == it.score >= MIN_SCORE

\* items.map(...).filter(it => it.score >= MIN_SCORE).sort(...)
ScoreFilterSort(items) ==
  SortByScore(SelectSeq([i \in 1..Len(items) |-> WithScore(items[i])], KeepScore))

(***************************************************************************)
(* The cache (Upstash Redis) and its two calls.                            *)
(***************************************************************************)
NoEntry == [val |-> JsNull, exp |-> 0]

\* the entry of a key is there until its expiry
Live(e, t) == e.val # JsNull /\ t < e.exp

\* what GET /get/{key} holds in its result field at time t
StoredResult(c, key, t) == IF Live(c[key], t) THEN c[key].val ELSE JsNull

\* the ways a call of upstashGet can go
GetOutcomes == {"ok", "http_error", "bad_json", "transport_error"}

\* a client that finds nothing, whatever the store holds
upstashGetNothing(c, key, t, outcome) ==
  CASE outcome = "transport_error" -> [threw |-> TRUE, value |-> Undefined]
    [] outcome = "http_error" -> [threw |-> FALSE, value |-> JsNull]
    [] outcome = "bad_json" -> [threw |-> TRUE, value |-> Undefined]
    [] outcome = "ok" -> [threw |-> FALSE, value |-> JsNull]

\* upstashGet(key): the value it returns, or its throwing
upstashGet(c, key, t, outcome) ==
  CASE outcome = "transport_error" -> [threw |-> TRUE, value |-> Undefined]
    [] outcome = "http_error" -> [threw |-> FALSE, value |-> JsNull]
    [] outcome = "bad_json" -> [threw |-> TRUE, value |-> Undefined]
    [] outcome = "ok" -> [threw |-> FALSE, value |-> StoredResult(c, key, t)]

\* the ways a call of upstashSetEx can go
SetOutcomes == {"ok", "http_error", "transport_error"}

\* a store that keeps the key for a day, whatever expiry was asked for
CacheAfterSetOneDay(c, key, value, exSeconds, t, outcome) ==
  IF outcome = "ok"
  THEN [c EXCEPT ![key] = [val |-> value, exp |-> t + 86400]]
  ELSE c

\* the store after POST /set/{key}/{value}?ex={exSeconds} was answered
CacheAfterSet(c, key, value, exSeconds, t, outcome) ==
  IF outcome = "ok"
  THEN [c EXCEPT ![key] = [val |-> value, exp |-> t + exSeconds]]
  ELSE c

\* upstashSetEx: r.ok, or its throwing
upstashSetEx(outcome) ==
  CASE outcome = "transport_error" -> [threw |-> TRUE, value |-> FALSE]
    [] outcome = "http_error" -> [threw |-> FALSE, value |-> FALSE]
    [] outcome = "ok" -> [threw |-> FALSE, value |-> TRUE]

(***************************************************************************)
(* makeSummaryBullets                                                      *)
(***************************************************************************)
\* the characters \s matches and trim() removes, as far as the model has them
IsSpace(c) == c \in {" ", "\n", "\t"}

\* [.?!]
IsStop(c) == c \in {".", "?", "!"}

\* the positions of a text, each with its character
Positions(s) == [i \in 1..Len(s) |-> [i |-> i, c |-> s[i]]]

\* the characters at the positions of a sequence of positions
Chars(ps) == [k \in 1..Len(ps) |-> ps[k].c]

\* summary.replace(/\s+/g, " "): every run of whitespace becomes one space
CollapseSpaces(s) ==
  LET FirstOfRun(p) == ~IsSpace(p.c) \/ p.i = 1 \/ ~IsSpace(s[p.i - 1])
      kept == Chars(SelectSeq(Positions(s), FirstOfRun))
  IN  [k \in 1..Len(kept) |-> IF IsSpace(kept[k]) THEN " " ELSE kept[k]]

\* String.prototype.trim
Trim(s) ==
  LET inked == {i \in 1..Len(s) : ~IsSpace(s[i])}
  IN  IF inked = {} THEN <<>>
      ELSE SubSeq(s, CHOOSE i \in inked : \A j \in inked : i <= j,
                     CHOOSE i \in inked : \A j \in inked : i >= j)

\* s.split(/(?<=[.?!])\s+/) from position from on: a run of whitespace that
\* starts right after a stop separates two pieces
RECURSIVE SplitAfterStop(_, _)
SplitAfterStop(s, from) ==
  LET cuts == {i \in from..Len(s) : i > 1 /\ IsSpace(s[i]) /\ IsStop(s[i - 1])}
  IN  IF cuts = {} THEN << SubSeq(s, from, Len(s)) >>
      ELSE LET cut == CHOOSE i \in cuts : \A j \in cuts : i <= j
               inked == {i \in cut..Len(s) : ~IsSpace(s[i])}
               next == IF inked = {} THEN Len(s) + 1
                       ELSE CHOOSE i \in inked : \A j \in inked : i <= j
           IN  << SubSeq(s, from, cut - 1) >> \o SplitAfterStop(s, next)

\* .map((s) => s.trim()).filter(Boolean)
TrimAll(pieces) ==
  LET NotEmpty(t) == t # <<>>
  IN  SelectSeq([k \in 1..Len(pieces) |-> Trim(pieces[k])], NotEmpty)

\* cleaned.indexOf(" ", mid), counted from 0; -1 when there is none
IndexOfSpace(s, mid) ==
  LET at == {i \in 0..(Len(s) - 1) : i >= mid /\ s[i + 1] = " "}
  IN  IF at = {} THEN -1 ELSE CHOOSE i \in at : \A j \in at : i <= j

\* the length a single sentence must exceed to be cut in two
LongSentence == 180

\* a test that takes a sentence of exactly that length for long too
IsLongFrom(cleaned) == Len(cleaned) >= LongSentence

\* cleaned.length > 180
IsLong(cleaned) == Len(cleaned) > LongSentence

\* a condenser that returns every sentence it found
makeSummaryBulletsUncut(summary, maxBullets) ==
  TrimAll(SplitAfterStop(Trim(CollapseSpaces(summary)), 1))

makeSummaryBullets(summary, maxBullets) ==
  LET cleaned == Trim(CollapseSpaces(summary))
      sentences == TrimAll(SplitAfterStop(cleaned, 1))
      mid == Len(cleaned) \div 2
      splitIdx == IndexOfSpace(cleaned, mid)
  IN  IF summary = <<>> \/ cleaned = <<>> THEN <<>>
      ELSE IF Len(sentences) >= maxBullets THEN SubSeq(sentences, 1, maxBullets)
      ELSE IF Len(sentences) = 1 /\ IsLong(cleaned) /\ splitIdx > -1
           THEN << Trim(SubSeq(cleaned, 1, splitIdx)),
                   Trim(SubSeq(cleaned, splitIdx + 1, Len(cleaned))) >>
      ELSE sentences

(***************************************************************************)
(* The notifier (Slack chat.postMessage).                                  *)
(***************************************************************************)
\* String.prototype.slice(0, n)
Slice(s, n) == SubSeq(s, 1, IF Len(s) < n THEN Len(s) ELSE n)

\* the section block of one item: its title line, its bullets and its link line
ItemBlock(it) ==
  [ title |-> Slice(it.title, 300), bullets |-> makeSummaryBullets(it.summary, 2),
    url |-> it.url, source |-> it.source, score |-> it.score ]

\* the body of the one message: the fallback text and the blocks, item by item
DigestMessage(items) ==
  [ text |-> [i \in 1..Len(items) |-> [title |-> items[i].title, url |-> items[i].url]],
    blocks |-> [i \in 1..Len(items) |-> ItemBlock(items[i])] ]

\* the ways the one call of chat.postMessage can go: the request fails, or an
\* answer arrives with a status (r.ok) and a body (data.ok, {} when undecodable)
SlackOutcomes ==
  { [net |-> "error", httpOk |-> FALSE, dataOk |-> Undefined],
    [net |-> "ok", httpOk |-> TRUE, dataOk |-> "true"],
    [net |-> "ok", httpOk |-> TRUE, dataOk |-> "false"],
    [net |-> "ok", httpOk |-> TRUE, dataOk |-> Undefined],
    [net |-> "ok", httpOk |-> FALSE, dataOk |-> "false"],
    [net |-> "ok", httpOk |-> FALSE, dataOk |-> Undefined] }

\* a notifier that looks at the status of the answer only
postDigestThrowsOnStatus(outcome) ==
  outcome.net = "error" \/ ~outcome.httpOk

\* postDigestToSlack throws: the fetch rejects, or !r.ok || !data.ok
postDigestThrows(outcome) ==
  outcome.net = "error" \/ ~outcome.httpOk \/ outcome.dataOk # "true"

(***************************************************************************)
(* State.                                                                  *)
(***************************************************************************)
Runs == {1, 2}

VARIABLES
  env,          \* process.env of the deployment: key -> value
  POST_MAX,     \* Number(process.env.POST_MAX_PER_RUN ?? "10")
  cache,        \* the Upstash store: key -> [val, exp]
  now,          \* the clock, in seconds
  run,          \* the invocations of handler(): run -> its local state
  slack,        \* the messages the channel received, in order, each with its time
                \* and whether every mark-seen write of its invocation succeeded
  invocations,  \* how many times handler() was invoked
  call          \* a direct call of one of the helpers: its arguments and its result

vars == <<env, POST_MAX, cache, now, run, slack, invocations, call>>

NoRes == [status |-> 0, text |-> "", keys |-> <<>>, n |-> 0]

\* the local state of an invocation that has not started
IdleRun ==
  [ pc |-> "idle",
    among |-> {},       \* the invocations that were under way when this one arrived
    feedIdx |-> 0,      \* position in RSS_FEEDS
    fetched |-> <<>>,   \* the feeds read so far: did parseURL throw, what was pushed
    items |-> <<>>,
    scored |-> <<>>,
    idx |-> 0,          \* position of the for loop over scored
    fresh |-> <<>>,
    reads |-> <<>>,     \* the calls of upstashGet so far, one per visited article
    posts |-> 0,        \* the calls of chat.postMessage so far
    post |-> [net |-> "none", httpOk |-> FALSE, dataOk |-> Undefined],
                        \* how the call of chat.postMessage went
    msg |-> 0,          \* the position in slack of the message it delivered
    sets |-> <<>>,      \* the calls of upstashSetEx that were made: key, value, ex
    writes |-> <<>>,    \* how each of them went
    res |-> NoRes,      \* what res.status(..).send(..) sent
    error |-> "" ]      \* the error the handler rejected with

\* no helper is called directly
NoCall == [fn |-> "none"]

EnvComplete == \A k \in 1..Len(RequiredEnv) : Truthy(env[RequiredEnv[k]])

\* the entry a key of the store can hold when a run starts: none, a marker the
\* job wrote, or (the key of Url1) the empty string
InitEntries(key) ==
  {NoEntry, [val |-> "1", exp |-> SeenTtlSeconds]}
  \cup (IF key = sha1Hex(Url1) THEN {[val |-> "", exp |-> SeenTtlSeconds]} ELSE {})

InitCaches == {c \in [CacheKeys -> UNION {InitEntries(k) : k \in CacheKeys}] :
                 \A k \in CacheKeys : c[k] \in InitEntries(k)}

TypeOK ==
  /\ env \in [{RequiredEnv[k] : k \in 1..Len(RequiredEnv)} -> EnvValues]
  /\ POST_MAX \in 0..MaxPostMax
  /\ DOMAIN cache = CacheKeys
  /\ now \in Nat
  /\ DOMAIN run = Runs
  /\ invocations \in Nat

Init ==
  /\ env \in [{RequiredEnv[k] : k \in 1..Len(RequiredEnv)} -> EnvValues]
  /\ POST_MAX \in 0..MaxPostMax
  /\ cache \in InitCaches
  /\ now = 0
  /\ run = [r \in Runs |-> IdleRun]
  /\ slack = <<>>
  /\ invocations = 0
  /\ call = NoCall

(***************************************************************************)
(* handler(): one action per stretch of code between two awaited calls.    *)
(***************************************************************************)
\* a check that takes only a variable that is not set for missing
IsMissingUnset(k) == env[k] = Undefined

\* if (!process.env[k]) missing.push(k)
IsMissing(k) == ~Truthy(env[k])

\* the invocation has arrived and has neither answered nor rejected
UnderWay(s) == s.pc \notin {"idle", "done", "threw"}

\* the invocation arrives; the env check answers 500 or the feeds are read
HandlerStart(r) ==
  /\ run[r].pc = "idle"
  /\ invocations < MaxRuns
  /\ invocations' = invocations + 1
  /\ LET missing == SelectSeq(RequiredEnv, IsMissing)
         s == [run[r] EXCEPT !.among = {q \in Runs \ {r} : UnderWay(run[q])}]
     IN  IF Len(missing) > 0
         THEN run' = [run EXCEPT ![r] =
                [s EXCEPT !.pc = "done",
                          !.res = [status |-> 500, text |-> "Missing env vars: ",
                                   keys |-> missing, n |-> 0]]]
         ELSE run' = [run EXCEPT ![r] = [s EXCEPT !.pc = "fetch", !.feedIdx = 1]]
  /\ UNCHANGED <<call, env, POST_MAX, cache, now, slack>>

\* the loop over RSS_FEEDS goes to its next feed, or is over
NextFeed(s) ==
  IF s.feedIdx = Len(RSS_FEEDS)
  THEN [s EXCEPT !.pc = "score"]
  ELSE [s EXCEPT !.feedIdx = s.feedIdx + 1]

\* a loop without the try/catch: the handler rejects with the error of parseURL
FeedFailureAborts(s) ==
  [s EXCEPT !.pc = "threw", !.error = "parseURL",
            !.fetched = Append(s.fetched, [failed |-> TRUE, pushed |-> <<>>])]

\* catch (e) { }: parseURL threw, the feed is ignored
FeedFailed(s) ==
  NextFeed([s EXCEPT !.fetched = Append(s.fetched, [failed |-> TRUE, pushed |-> <<>>])])

\* the feed was parsed: its entries are pushed
FeedParsed(s, feed, feedUrl) ==
  LET source == Coalesce(feed.title, feedUrl)
      items == PushItems(s.items, FeedItems(feed), source)
  IN  NextFeed([s EXCEPT !.items = items,
                         !.fetched = Append(s.fetched,
                            [ failed |-> FALSE,
                              pushed |-> SubSeq(items, Len(s.items) + 1, Len(items)) ])])

\* one pass of the loop over RSS_FEEDS: parseURL throws (the feed is skipped) or
\* answers a feed whose entries are pushed; maxItems and pool bound what it answers
FetchFeed(r, pool, maxItems) ==
  /\ run[r].pc = "fetch"
  /\ LET s == run[r]
         feedUrl == RSS_FEEDS[s.feedIdx]
     IN  \/ run' = [run EXCEPT ![r] = FeedFailed(s)]
         \/ \E feed \in FeedResults(feedUrl, pool[s.feedIdx], maxItems - Len(s.items)) :
              run' = [run EXCEPT ![r] = FeedParsed(s, feed, feedUrl)]
  /\ UNCHANGED <<call, env, POST_MAX, cache, now, slack, invocations>>

\* a handler without the exit test
AfterLoopAlwaysNotify(s) == [s EXCEPT !.pc = "notify"]

\* the response of the loop's exit test, if (!fresh.length)
AfterLoop(s) ==
  IF Len(s.fresh) = 0
  THEN [s EXCEPT !.pc = "done",
                 !.res = [status |-> 200, text |-> "OK - no new items",
                          keys |-> <<>>, n |-> 0]]
  ELSE [s EXCEPT !.pc = "notify"]

\* score, filter and sort, then enter the loop over scored
ScoreAndFilter(r) ==
  /\ run[r].pc = "score"
  /\ LET s == [run[r] EXCEPT !.scored = ScoreFilterSort(run[r].items)]
     IN  run' = [run EXCEPT ![r] =
           IF Len(s.scored) = 0 THEN AfterLoop(s)
           ELSE [s EXCEPT !.pc = "dedupe", !.idx = 1]]
  /\ UNCHANGED <<call, env, POST_MAX, cache, now, slack, invocations>>

\* fresh.push({...it, _redisKey: key})
FreshItem(it, key) ==
  [ title |-> it.title, url |-> it.url, summary |-> it.summary, source |-> it.source,
    published |-> it.published, score |-> it.score, _redisKey |-> key ]

\* if (fresh.length >= POST_MAX) break
CapReached(fresh) == Len(fresh) >= POST_MAX

\* a loop that never skips
SkipSeenNever(seen) == FALSE

\* if (seen) continue
SkipSeen(seen) == Truthy(seen)

\* one pass of the loop over scored: the key, the cache lookup, skip or push
DedupeAndCap(r) ==
  /\ run[r].pc = "dedupe"
  /\ \E outcome \in GetOutcomes :
       LET s == run[r]
           it == s.scored[s.idx]
           key == sha1Hex(it.url)
           got == upstashGet(cache, key, now, outcome)
           rd == [ url |-> it.url, key |-> key, outcome |-> outcome,
                   stored |-> StoredResult(cache, key, now),
                   threw |-> got.threw, seen |-> got.value, pushed |-> FALSE ]
           advance(t) == IF t.idx = Len(t.scored) THEN AfterLoop(t)
                         ELSE [t EXCEPT !.idx = t.idx + 1]
       IN  run' = [run EXCEPT ![r] =
             IF got.threw
             THEN [s EXCEPT !.pc = "threw", !.error = "upstashGet",
                            !.reads = Append(s.reads, rd)]
             ELSE IF SkipSeen(got.value)
             THEN advance([s EXCEPT !.reads = Append(s.reads, rd)])
             ELSE LET t == [s EXCEPT !.reads = Append(s.reads, [rd EXCEPT !.pushed = TRUE]),
                                     !.fresh = Append(s.fresh, FreshItem(it, key))]
                  IN  IF CapReached(t.fresh) THEN AfterLoop(t) ELSE advance(t)]
  /\ UNCHANGED <<call, env, POST_MAX, cache, now, slack, invocations>>

\* a handler that marks the first item of the digest only
MarkSeenCallsFirstOnly(fresh) ==
  << [key |-> fresh[1]._redisKey, value |-> "1", ex |-> SeenTtlSeconds] >>

\* fresh.map((it) => upstashSetEx(it._redisKey, "1", 7 * 86400))
MarkSeenCalls(fresh) ==
  [i \in 1..Len(fresh) |->
     [key |-> fresh[i]._redisKey, value |-> "1", ex |-> SeenTtlSeconds]]

\* await postDigestToSlack(fresh): the one request, its answer, and either the
\* throw or the calls of upstashSetEx that Promise.all starts together
Notify(r) ==
  /\ run[r].pc = "notify"
  /\ \E outcome \in SlackOutcomes :
       LET s == [run[r] EXCEPT !.posts = run[r].posts + 1, !.post = outcome]
       IN  IF postDigestThrows(outcome)
           THEN /\ run' = [run EXCEPT ![r] =
                     [s EXCEPT !.pc = "threw", !.error = "Slack post failed"]]
                /\ UNCHANGED slack
           ELSE /\ run' = [run EXCEPT ![r] =
                     [s EXCEPT !.pc = "markseen",
                               !.msg = Len(slack) + 1,
                               !.writes = [i \in 1..Len(MarkSeenCalls(s.fresh)) |->
                                             "pending"]]]
                /\ slack' = Append(slack,
                     [ at |-> now, message |-> DigestMessage(s.fresh),
                       writesOk |-> FALSE ])
  /\ UNCHANGED <<call, env, POST_MAX, cache, now, invocations>>

\* the cache after the first n calls of upstashSetEx were answered
RECURSIVE CacheAfterWrites(_, _, _, _, _)
CacheAfterWrites(c, calls, outcomes, n, t) ==
  IF n = 0 THEN c
  ELSE CacheAfterSet(CacheAfterWrites(c, calls, outcomes, n - 1, t),
                     calls[n].key, calls[n].value, calls[n].ex, t, outcomes[n])

\* Promise.all rejects when one of the calls throws
PromiseAllRejects(outcomes) ==
  \E i \in 1..Len(outcomes) : upstashSetEx(outcomes[i]).threw

\* await Promise.all(fresh.map(it => upstashSetEx(it._redisKey, "1", 7 * 86400))):
\* every call is made once and answered in one of its ways; the handler rejects
\* when Promise.all does, and sends its 200 otherwise
MarkSeen(r) ==
  /\ run[r].pc = "markseen"
  /\ LET calls == MarkSeenCalls(run[r].fresh)
     IN  \E outcomes \in [1..Len(calls) -> SetOutcomes] :
           LET s == [run[r] EXCEPT !.sets = calls, !.writes = outcomes]
           IN  /\ cache' = CacheAfterWrites(cache, calls, outcomes, Len(calls), now)
               /\ IF PromiseAllRejects(outcomes)
                  THEN run' = [run EXCEPT ![r] =
                         [s EXCEPT !.pc = "threw", !.error = "upstashSetEx"]]
                  ELSE run' = [run EXCEPT ![r] =
                         [s EXCEPT !.pc = "done",
                                   !.res = [status |-> 200,
                                            text |-> "OK - posted digest with N items",
                                            keys |-> <<>>, n |-> Len(s.fresh)]]]
               /\ slack' = [slack EXCEPT ![s.msg].writesOk =
                               \A i \in 1..Len(outcomes) : outcomes[i] = "ok"]
  /\ UNCHANGED <<call, env, POST_MAX, now, invocations>>

\* the invocation is over (answered or rejected) and the scheduler may invoke
\* the handler again
Exit(r) ==
  /\ run[r].pc \in {"done", "threw"}
  /\ invocations < MaxRuns
  /\ run' = [run EXCEPT ![r] = IdleRun]
  /\ UNCHANGED <<call, env, POST_MAX, cache, now, slack, invocations>>

\* time passes between invocations: an invocation lasts seconds, a tick days
Tick ==
  /\ \A r \in Runs : run[r].pc = "idle"
  /\ now < MaxTicks * TickSeconds
  /\ now' = now + TickSeconds
  /\ UNCHANGED <<call, env, POST_MAX, cache, run, slack, invocations>>

(***************************************************************************)
(* Specifications.                                                         *)
(***************************************************************************)
\* one invocation, from any environment and any content of the store
Next ==
  \/ HandlerStart(1)
  \/ FetchFeed(1, EntryPool, MaxItems)
  \/ ScoreAndFilter(1)
  \/ DedupeAndCap(1)
  \/ Notify(1)
  \/ MarkSeen(1)

Spec == Init /\ [][Next]_vars

\* invocations one after the other, as the scheduler runs them, with time passing;
\* the environment is complete and the store starts empty
InitRuns ==
  /\ Init
  /\ EnvComplete
  /\ cache = [k \in CacheKeys |-> NoEntry]

NextRuns ==
  \/ HandlerStart(1)
  \/ FetchFeed(1, EntryPoolRuns, MaxItemsRuns)
  \/ ScoreAndFilter(1)
  \/ DedupeAndCap(1)
  \/ Notify(1)
  \/ MarkSeen(1)
  \/ Exit(1)
  \/ Tick

SpecRuns == InitRuns /\ [][NextRuns]_vars

\* two invocations that the scheduler does not keep apart: each takes its steps
\* at its await points, in any order with the steps of the other
NextOverlap ==
  \/ \E r \in Runs : HandlerStart(r)
  \/ \E r \in Runs : FetchFeed(r, EntryPoolRuns, MaxItemsRuns)
  \/ \E r \in Runs : ScoreAndFilter(r)
  \/ \E r \in Runs : DedupeAndCap(r)
  \/ \E r \in Runs : Notify(r)
  \/ \E r \in Runs : MarkSeen(r)

SpecOverlap == InitRuns /\ [][NextOverlap]_vars

(***************************************************************************)
(* scoreArticle called directly, on texts put together from chunks.        *)
(***************************************************************************)
Chunks ==
  { <<"A","c","q","u","i">>, <<"s","i","t","i","o","n">>, <<"d","a","t","a">>,
    <<"c","e","n","t","e","r">>, <<"G","P","U">>, <<"c","o","l","o">>,
    <<"c","a","t","i","o","n">>, <<"l","i","q","u","i","d"," ">>,
    <<"c","o","o","l","i","n","g">>, <<"x">> }

\* the text a sequence of chunks spells
RECURSIVE Spell(_)
Spell(chunks) == IF chunks = <<>> THEN <<>> ELSE Head(chunks) \o Spell(Tail(chunks))

Texts(n) == {Spell(cs) : cs \in SeqsUpTo(Chunks, n)}

\* the state around a direct call of a helper: no invocation of the handler
InitHelpers ==
  /\ env = [k \in {RequiredEnv[j] : j \in 1..Len(RequiredEnv)} |-> "set"]
  /\ POST_MAX = MaxPostMax
  /\ cache = [k \in CacheKeys |-> NoEntry]
  /\ now = 0
  /\ run = [r \in Runs |-> IdleRun]
  /\ slack = <<>>
  /\ invocations = 0

\* a title and a summary, and a longer text around them: before the title and
\* after the summary
InitScore ==
  /\ InitHelpers
  /\ call \in { [ fn |-> "scoreArticle", title |-> t, contentSnippet |-> c,
                   before |-> b, after |-> a, returned |-> FALSE, out |-> 0, outLonger |-> 0 ] :
                   t \in Texts(MaxChunks), c \in Texts(1), b \in {<<>>, <<"x">>},
                   a \in {<<>>, <<"c","a","t","i","o","n">>, <<" ","A","M","D">>} }

\* scoreArticle({title, contentSnippet}), and the same for the longer text
ScoreCall ==
  /\ call.fn = "scoreArticle" /\ ~call.returned
  /\ call' = [call EXCEPT
        !.returned = TRUE,
        !.out = scoreArticle(call.title, call.contentSnippet),
        !.outLonger = scoreArticle(call.before \o call.title,
                                   call.contentSnippet \o call.after)]
  /\ UNCHANGED <<env, POST_MAX, cache, now, run, slack, invocations>>

NextScore == ScoreCall

SpecScore == InitScore /\ [][NextScore]_vars

(***************************************************************************)
(* makeSummaryBullets called directly: on short summaries put together     *)
(* from pieces, and on summaries of two long words around LongSentence.    *)
(***************************************************************************)
Pieces ==
  { <<"H","i",".">>, <<"N","o","?">>, <<"a","!">>, <<" ">>, <<"\n">> }

ShortSummaries == {Spell(ps) : ps \in SeqsUpTo(Pieces, MaxPieces)}

\* a word of n times the character c
Word(c, n) == [i \in 1..n |-> c]

\* the lengths of the long words: a third, a half (one less, one more) and two
\* thirds of LongSentence
WordLengths ==
  { LongSentence \div 3, LongSentence \div 2 - 1, LongSentence \div 2,
    LongSentence \div 2 + 1, 2 * (LongSentence \div 3) }

LongSummaries ==
  { Word("a", k) \o gap \o Word("b", m) \o tail :
      k \in WordLengths, m \in WordLengths,
      gap \in {<<>>, <<" ">>, <<" ", "\n">>},
      tail \in {<<>>, <<" ", "c">>, <<".", " ", "d">>} }

InitBullets ==
  /\ InitHelpers
  /\ call \in { [ fn |-> "makeSummaryBullets", summary |-> t, maxBullets |-> n,
                   returned |-> FALSE, out |-> <<>> ] :
                   t \in ShortSummaries \cup LongSummaries, n \in 1..MaxBullets }

\* makeSummaryBullets(summary, maxBullets)
BulletsCall ==
  /\ call.fn = "makeSummaryBullets" /\ ~call.returned
  /\ call' = [call EXCEPT
        !.returned = TRUE,
        !.out = makeSummaryBullets(call.summary, call.maxBullets)]
  /\ UNCHANGED <<env, POST_MAX, cache, now, run, slack, invocations>>

NextBullets == BulletsCall

SpecBullets == InitBullets /\ [][NextBullets]_vars

(***************************************************************************)
(* Vocabulary of the properties.                                           *)
(***************************************************************************)
\* the loop over scored is over: the handler went on to the exit test
LoopFinished(s) ==
  \/ s.pc \in {"notify", "markseen"}
  \/ s.pc = "done" /\ s.res.status = 200
  \/ s.pc = "threw" /\ s.error # "upstashGet"

\* the digest of the run was delivered: chat.postMessage answered ok
DigestSent(s) == s.posts > 0 /\ ~postDigestThrows(s.post)

\* the positions of scored whose article was pushed to fresh
PushedIdx(s) == {i \in 1..Len(s.reads) : s.reads[i].pushed}

\* fresh already held POST_MAX items when the loop came to position i
CapReachedBefore(s, i) == Cardinality({j \in PushedIdx(s) : j < i}) >= POST_MAX

\* the URLs a sequence of items, or of blocks of a message, lists
UrlsOf(seq) == [i \in 1..Len(seq) |-> seq[i].url]

\* has() answered true / false for the article at position i of scored
HasTrue(s, i) == ~s.reads[i].threw /\ Truthy(s.reads[i].seen)
HasFalse(s, i) == ~s.reads[i].threw /\ ~Truthy(s.reads[i].seen)

\* the store held a marker of the job for the article when the run queried it
MarkerAtQuery(s, i) == s.reads[i].stored = "1"

\* the articles of scored that were pushed, in order
RECURSIVE PushedUrls(_, _)
PushedUrls(s, n) ==
  IF n = 0 THEN <<>>
  ELSE IF s.reads[n].pushed THEN Append(PushedUrls(s, n - 1), s.scored[n].url)
       ELSE PushedUrls(s, n - 1)

(***************************************************************************)
(* C1: dedup within a run.                                                 *)
(***************************************************************************)
\* C1 as stated: an article whose key has a seen marker in the store when the
\* run queries it is never included in the digest, and a qualifying article
\* without one is included unless the cap was reached before it.
C1_AsStated ==
  \A r \in Runs :
    LET s == run[r]
    IN  /\ DigestSent(s) =>
             \A i \in 1..Len(s.reads) : MarkerAtQuery(s, i) => ~s.reads[i].pushed
        /\ LoopFinished(s) =>
             \A i \in 1..Len(s.scored) :
               (i > Len(s.reads) \/ ~MarkerAtQuery(s, i)) /\ ~CapReachedBefore(s, i)
                 => i \in PushedIdx(s)

\* C1, amended: an article for which has() answers true (a success status and a
\* truthy result, as for every marker of the job that is read successfully) is
\* never included in the digest; a qualifying article for which has() answers
\* false is included unless the cap was reached before it; the digest holds
\* exactly the included articles.
C1_DedupWithinRun ==
  \A r \in Runs :
    LET s == run[r]
    IN  /\ \A i \in 1..Len(s.reads) :
             /\ HasTrue(s, i) => ~s.reads[i].pushed
             /\ (MarkerAtQuery(s, i) /\ s.reads[i].outcome = "ok") => HasTrue(s, i)
             /\ HasFalse(s, i) => s.reads[i].pushed
             /\ s.reads[i].threw => ~s.reads[i].pushed
        /\ Len(s.reads) <= Len(s.scored)
        /\ UrlsOf(s.fresh) = PushedUrls(s, Len(s.reads))
        /\ LoopFinished(s) =>
             \A i \in 1..Len(s.scored) : i > Len(s.reads) => CapReachedBefore(s, i)
        /\ DigestSent(s) =>
             /\ Len(slack) > 0
             /\ UrlsOf(slack[Len(slack)].message.blocks) = UrlsOf(s.fresh)

\* a batch with A (marker in the store, read successfully) and B (no marker):
\* the digest that was sent holds only B
C1_Witness ==
  LET s == run[1]
  IN  /\ s.pc = "done" /\ s.res.n = 1
      /\ Len(s.reads) = 2
      /\ MarkerAtQuery(s, 1) /\ s.reads[1].outcome = "ok" /\ ~s.reads[1].pushed
      /\ s.reads[2].stored = JsNull /\ s.reads[2].pushed
      /\ UrlsOf(slack[1].message.blocks) = <<s.scored[2].url>>

(***************************************************************************)
(* C2: non-repetition across runs.                                         *)
(***************************************************************************)
\* the keys of the articles a delivered message lists
KeysOf(message) == {sha1Hex(message.blocks[i].url) : i \in 1..Len(message.blocks)}

\* has(key) when the read succeeds, in store c at time t
Has(c, key, t) == Truthy(upstashGet(c, key, t, "ok").value)

\* the retention window of a delivered message is still open at time t
InWindow(m, t) == t < m.at + SeenTtlSeconds

\* every cache read of the run was answered with success
ReadsAllOk(s) == \A i \in 1..Len(s.reads) : s.reads[i].outcome = "ok"

\* C2: after a run that sent a digest and whose mark-seen writes all succeeded,
\* has() is true for the key of every article of that digest as long as the
\* 7-day window is open; and a later run inside the window whose cache reads
\* succeed includes none of those articles in its digest.
C2_NonRepetition ==
  [][ /\ \A j \in 1..Len(slack') :
           (slack'[j].writesOk /\ InWindow(slack'[j], now')) =>
             \A k \in KeysOf(slack'[j].message) : Has(cache', k, now')
      /\ \A r \in Runs :
           (run[r].pc = "notify" /\ run'[r].pc = "markseen" /\ ReadsAllOk(run[r])) =>
             \A j \in 1..Len(slack) :
               (slack[j].writesOk /\ InWindow(slack[j], now)) =>
                 KeysOf(slack'[Len(slack')].message) \cap KeysOf(slack[j].message) = {}
    ]_vars

\* a second run, inside the window of the first run's digest, reads the marker
\* of an article of that digest, skips it and ends with no new items
C2_Witness ==
  LET s == run[1]
  IN  /\ invocations = 2
      /\ Len(slack) = 1 /\ slack[1].writesOk /\ InWindow(slack[1], now)
      /\ now > slack[1].at
      /\ s.pc = "done" /\ s.res.text = "OK - no new items"
      /\ Len(s.reads) = 1
      /\ s.reads[1].key \in KeysOf(slack[1].message)
      /\ s.reads[1].outcome = "ok" /\ ~s.reads[1].pushed

(***************************************************************************)
(* C3: no URL twice in one digest.                                         *)
(***************************************************************************)
\* C3: no two items of a digest that was sent have the same URL.
C3_NoRepeatInDigest ==
  \A j \in 1..Len(slack) :
    LET blocks == slack[j].message.blocks
    IN  \A a, b \in 1..Len(blocks) : a # b => blocks[a].url # blocks[b].url

(***************************************************************************)
(* C4, C5: the cap.                                                        *)
(***************************************************************************)
\* the positions of scored whose key has no entry in the store
UnseenIdx(s) ==
  {i \in 1..Len(s.scored) : StoredResult(cache, sha1Hex(s.scored[i].url), now) = JsNull}

\* C4: fresh never holds more than POST_MAX items, and holds exactly POST_MAX
\* when the loop is over and more than POST_MAX qualifying articles are unseen.
C4_Cap ==
  \A r \in Runs :
    LET s == run[r]
    IN  /\ Len(s.fresh) <= POST_MAX
        /\ (s.pc = "notify" /\ Cardinality(UnseenIdx(s)) > POST_MAX) =>
             Len(s.fresh) = POST_MAX

\* C5: the included items are the first unseen articles of the score-descending
\* list: each has a score at least that of every unseen article left out, the
\* digest lists them by descending score, and no article is looked up in the
\* cache once the cap is reached.
C5_CapFollowsScoreOrder ==
  \A r \in Runs :
    LET s == run[r]
    IN  /\ \A a, b \in 1..Len(s.fresh) : a < b => s.fresh[a].score >= s.fresh[b].score
        /\ s.pc = "notify" =>
             \A i \in PushedIdx(s), j \in UnseenIdx(s) \ PushedIdx(s) :
               s.scored[i].score >= s.scored[j].score
        /\ DigestSent(s) =>
             \A a, b \in 1..Len(slack[Len(slack)].message.blocks) :
               a < b => slack[Len(slack)].message.blocks[a].score
                          >= slack[Len(slack)].message.blocks[b].score
        /\ \A i \in 1..Len(s.reads) : ~CapReachedBefore(s, i)

(***************************************************************************)
(* C6: score, filter, sort.                                                *)
(***************************************************************************)
\* the handler has computed scored
Scored(s) == s.pc \notin {"idle", "fetch", "score"} /\ s.res.status # 500

\* the elements of a sequence of scored items that have score v, in order
WithScoreOf(seq, v) == LET Is(x) == x.score = v IN SelectSeq(seq, Is)

\* C6: scored holds exactly the fetched articles with score >= MIN_SCORE, each as
\* often as it was fetched, by descending score, and in fetch order among the
\* articles of one score.
C6_ScoreAndFilter ==
  \A r \in Runs :
    LET s == run[r]
        all == [i \in 1..Len(s.items) |->
                  [ title |-> s.items[i].title, url |-> s.items[i].url,
                    summary |-> s.items[i].summary, source |-> s.items[i].source,
                    published |-> s.items[i].published,
                    score |-> scoreArticle(s.items[i].title, s.items[i].summary) ]]
    IN  Scored(s) =>
          /\ \A k \in 1..Len(s.scored) : s.scored[k].score >= MIN_SCORE
          /\ \A k, l \in 1..Len(s.scored) :
               k < l => s.scored[k].score >= s.scored[l].score
          /\ \A k \in 1..Len(s.scored) : \E i \in 1..Len(all) : all[i] = s.scored[k]
          /\ \A i \in 1..Len(all) :
               WithScoreOf(s.scored, all[i].score) =
                 IF all[i].score >= MIN_SCORE THEN WithScoreOf(all, all[i].score)
                 ELSE <<>>

\* three fetched articles: two different ones of equal score, then one of a
\* higher score; the last comes first and the two keep their order
C6_Witness ==
  LET s == run[1]
  IN  /\ Scored(s) /\ Len(s.items) = 3 /\ Len(s.scored) = 3
      /\ s.items[1] # s.items[2]
      /\ s.scored[1].url = s.items[3].url /\ s.scored[1].score > s.scored[2].score
      /\ s.scored[2].score = s.scored[3].score
      /\ s.scored[2].url = s.items[1].url /\ s.scored[3].url = s.items[2].url

(***************************************************************************)
(* C7: a failed cache read.                                                *)
(***************************************************************************)
\* C7: a cache read that fails in any way (non-success status, failed
\* transport, undecodable body) makes the article count as unseen, and the run
\* goes on; no cache read aborts the run.
C7_ReadFailureIsUnseen ==
  \A r \in Runs :
    LET s == run[r]
    IN  /\ \A i \in 1..Len(s.reads) :
             s.reads[i].outcome # "ok" => (~s.reads[i].threw /\ s.reads[i].pushed)
        /\ ~(s.pc = "threw" /\ s.error = "upstashGet")

(***************************************************************************)
(* C8: a failed mark-seen write.                                           *)
(***************************************************************************)
\* every call of upstashSetEx of the run has been answered
WritesSettled(s) ==
  Len(s.writes) > 0 /\ \A i \in 1..Len(s.writes) : s.writes[i] # "pending"

\* C8: once the digest is sent and the mark-seen writes are answered, whichever
\* of them failed (non-success status or failed transport), the run has ended
\* with 200 and the number of items posted, each write made once.
C8_MarkSeenFailureNonFatal ==
  \A r \in Runs :
    LET s == run[r]
    IN  WritesSettled(s) =>
          /\ s.pc = "done" /\ s.res.status = 200 /\ s.res.n = Len(s.fresh)
          /\ Len(s.writes) = Len(s.fresh)

(***************************************************************************)
(* C9: a failed notification.                                              *)
(***************************************************************************)
\* the call of chat.postMessage failed: no answer, a non-2xx answer, or ok false
SlackFailed(post) == post.net = "error" \/ ~post.httpOk \/ post.dataOk # "true"

\* C9: when sending the digest fails the handler rejects with that error, sends
\* no status, has called chat.postMessage once, and no upstashSetEx call is
\* made: the store answers for the keys of the digest what it answered before.
C9_NotifyFailureFatal ==
  \A r \in Runs :
    LET s == run[r]
    IN  (s.posts > 0 /\ SlackFailed(s.post)) =>
          /\ s.pc = "threw" /\ s.error = "Slack post failed"
          /\ s.res = NoRes
          /\ s.posts = 1
          /\ s.writes = <<>>
          /\ slack = <<>>
          /\ \A i \in PushedIdx(s) :
               StoredResult(cache, s.reads[i].key, now) = s.reads[i].stored

\* Slack answers 200 with ok false to a digest of two items
C9_Witness ==
  LET s == run[1]
  IN  /\ s.pc = "threw" /\ s.posts = 1
      /\ s.post.net = "ok" /\ s.post.httpOk /\ s.post.dataOk = "false"
      /\ Len(s.fresh) = 2

(***************************************************************************)
(* C10: the run without new items.                                         *)
(***************************************************************************)
\* C10: when the run finds no qualifying article unseen (has() answers true for
\* every one, every score is below MIN_SCORE, or nothing was fetched) it ends
\* with 200 "OK - no new items", chat.postMessage is never called and no
\* upstashSetEx call is made.
C10_NoOpRun ==
  \A r \in Runs :
    LET s == run[r]
    IN  ( /\ Scored(s)
          /\ \A i \in 1..Len(s.scored) : i <= Len(s.reads) /\ HasTrue(s, i) ) =>
          /\ s.pc = "done"
          /\ s.res = [status |-> 200, text |-> "OK - no new items", keys |-> <<>>, n |-> 0]
          /\ s.posts = 0
          /\ s.writes = <<>>
          /\ s.fresh = <<>>
          /\ slack = <<>>

\* two qualifying articles, both already seen
C10_Witness ==
  LET s == run[1]
  IN  /\ Scored(s) /\ Len(s.scored) = 2 /\ Len(s.reads) = 2
      /\ HasTrue(s, 1) /\ HasTrue(s, 2)
      /\ s.pc = "done" /\ s.res.text = "OK - no new items"

(***************************************************************************)
(* C11: one digest per run.                                                *)
(***************************************************************************)
\* the invocation is over: it answered or it rejected
Ended(s) == s.pc \in {"done", "threw"}

\* C11: a run never calls chat.postMessage more than once; a run that is over
\* and has accumulated items in fresh has called it exactly once; and the one
\* message a run delivers lists all of fresh, item by item; the channel receives
\* no other message.
C11_OneDigestPerRun ==
  \A r \in Runs :
    LET s == run[r]
    IN  /\ s.posts <= 1
        /\ (Ended(s) /\ Len(s.fresh) > 0) => s.posts = 1
        /\ Len(s.fresh) = 0 => s.posts = 0
        /\ DigestSent(s) =>
             \E j \in 1..Len(slack) : slack[j].message = DigestMessage(s.fresh)
        /\ Len(slack) = Cardinality({q \in Runs : DigestSent(run[q])})

(***************************************************************************)
(* C12: a failing feed.                                                    *)
(***************************************************************************)
\* the loop over RSS_FEEDS is over
Fetched(s) == s.pc \notin {"idle", "fetch"} /\ s.res.status # 500

\* what the feeds 1..n pushed, in order
RECURSIVE PushedBy(_, _)
PushedBy(fetched, n) ==
  IF n = 0 THEN <<>> ELSE PushedBy(fetched, n - 1) \o fetched[n].pushed

\* C12: a feed whose fetch or parse fails is skipped: every feed after it is
\* still read, items holds what the other feeds pushed, in order, and when every
\* feed fails the run has no article, calls neither the cache nor the notifier
\* and answers 200 "OK - no new items".
C12_FeedFailureSkipped ==
  \A r \in Runs :
    LET s == run[r]
        n == Len(s.fetched)
    IN  /\ s.pc = "fetch" => n = s.feedIdx - 1
        /\ Fetched(s) => n = Len(RSS_FEEDS)
        /\ \A k \in 1..n : s.fetched[k].failed => s.fetched[k].pushed = <<>>
        /\ s.items = PushedBy(s.fetched, n)
        /\ (Fetched(s) /\ \A k \in 1..n : s.fetched[k].failed) =>
             /\ s.items = <<>>
             /\ s.pc \in {"score", "done"}
             /\ s.pc = "done" =>
                  s.res = [status |-> 200, text |-> "OK - no new items",
                           keys |-> <<>>, n |-> 0]
             /\ s.reads = <<>> /\ s.posts = 0 /\ s.writes = <<>>

\* the first feed gave an article, the second failed, and the article was posted
C12_Witness ==
  LET s == run[1]
  IN  /\ Len(s.fetched) = 2
      /\ ~s.fetched[1].failed /\ Len(s.fetched[1].pushed) = 1
      /\ s.fetched[2].failed
      /\ s.pc = "done" /\ s.res.status = 200 /\ s.res.n = 1
      /\ Len(slack) = 1 /\ slack[1].message.blocks[1].url = s.fetched[1].pushed[1].url

(***************************************************************************)
(* C13: the environment check.                                             *)
(***************************************************************************)
\* the variable is not set, or set to the empty string
NotConfigured(k) == env[k] \in {Undefined, ""}

\* C13: when one of the four required variables is missing, the invocation
\* answers 500 with "Missing env vars: " and exactly the missing keys, in the
\* order of the check, and has read no feed, called neither upstashGet nor
\* upstashSetEx nor chat.postMessage; 500 is answered in no other case.
C13_ConfigErrorAborts ==
  \A r \in Runs :
    LET s == run[r]
        missing == SelectSeq(RequiredEnv, NotConfigured)
    IN  /\ (s.pc # "idle" /\ Len(missing) > 0) =>
             /\ s.pc = "done"
             /\ s.res = [status |-> 500, text |-> "Missing env vars: ",
                         keys |-> missing, n |-> 0]
             /\ s.fetched = <<>> /\ s.items = <<>>
             /\ s.reads = <<>> /\ s.writes = <<>> /\ s.posts = 0
             /\ slack = <<>>
        /\ s.res.status = 500 => Len(missing) > 0

\* the channel id is not set and the cache token is empty: both are named
C13_Witness ==
  /\ env["SLACK_BOT_TOKEN"] = "set" /\ env["SLACK_CHANNEL_ID"] = Undefined
  /\ env["UPSTASH_REDIS_REST"] = "set" /\ env["UPSTASH_REDIS_TOKEN"] = ""
  /\ run[1].pc = "done" /\ run[1].res.status = 500
  /\ run[1].res.keys = << "SLACK_CHANNEL_ID", "UPSTASH_REDIS_TOKEN" >>

(***************************************************************************)
(* C14: the outcome of an invocation.                                      *)
(***************************************************************************)
\* 500 with the missing keys
EndedMissingEnv(s) ==
  s.pc = "done" /\ s.res.status = 500 /\ Len(s.res.keys) > 0

\* 200 "OK - no new items"
EndedNoNewItems(s) ==
  s.pc = "done" /\ s.res.status = 200 /\ s.res.text = "OK - no new items"

\* 200 "OK - posted digest with N items", N the number of items of the message
EndedPosted(s) ==
  /\ s.pc = "done" /\ s.res.status = 200
  /\ s.res.text = "OK - posted digest with N items"
  /\ DigestSent(s)
  /\ \E j \in 1..Len(slack) :
       slack[j].message = DigestMessage(s.fresh) /\ s.res.n = Len(slack[j].message.blocks)

\* the handler rejected with the error of postDigestToSlack
EndedNotifyFailed(s) ==
  s.pc = "threw" /\ s.error = "Slack post failed" /\ s.res = NoRes

\* how many of the conditions of a list hold
HowMany(conds) == Cardinality({k \in 1..Len(conds) : conds[k]})

\* C14: when an invocation has ended exactly one of the four outcomes holds (500 with the missing keys, 200 no new items, 200 posted
\* digest with N items, rejected with the notifier's error); it has answered
\* no 200 after a failed chat.postMessage.
C14_DefinitiveOutcome ==
  \A r \in Runs :
    LET s == run[r]
    IN  /\ Ended(s) =>
             HowMany(<< EndedMissingEnv(s), EndedNoNewItems(s),
                        EndedPosted(s), EndedNotifyFailed(s) >>) = 1
        /\ (s.posts > 0 /\ SlackFailed(s.post)) => s.res.status # 200

(***************************************************************************)
(* C15: the relevance score.                                               *)
(***************************************************************************)
\* term occurs in txt, at some position
Occurs(term, txt) ==
  \E i \in 1..(Len(txt) - Len(term) + 1) : SubSeq(txt, i, i + Len(term) - 1) = term

\* weight for every one of the first n terms of the list that occurs in txt
RECURSIVE Weighted(_, _, _, _)
Weighted(terms, n, weight, txt) ==
  IF n = 0 THEN 0
  ELSE Weighted(terms, n - 1, weight, txt)
         + (IF Occurs(terms[n], txt) THEN weight ELSE 0)

\* C15: the score is 3 for every high-signal term and 2 for every vendor term
\* that occurs in the lowercased title + " " + summary, wherever it occurs (so
\* "acquisition" counts "acqui" too); it is 0 for an empty title and summary,
\* never negative, and not lower for a longer text around the same text.
C15_RelevanceScore ==
  call.fn = "scoreArticle" /\ call.returned =>
    LET txt == toLowerCase(call.title \o <<" ">> \o call.contentSnippet)
    IN  /\ call.out = Weighted(high, Len(high), 3, txt) + Weighted(infra, Len(infra), 2, txt)
        /\ call.out >= 0
        /\ (call.title = <<>> /\ call.contentSnippet = <<>>) => call.out = 0
        /\ Occurs(<<"a","c","q","u","i","s","i","t","i","o","n">>, txt) => call.out >= 6
        /\ call.outLonger >= call.out

\* "Acquisition" in the title and "GPU" in the summary score 3 + 3 + 2, and
\* "cation" after "colo" adds a term
C15_Witness ==
  /\ call.fn = "scoreArticle" /\ call.returned
  /\ call.title = <<"A","c","q","u","i","s","i","t","i","o","n">>
  /\ call.contentSnippet = <<"G","P","U">>
  /\ call.out = 8
  /\ call.outLonger > call.out

(***************************************************************************)
(* C16, C17: the condenser.                                                *)
(***************************************************************************)
\* the bullets of a sequence, joined by one space
RECURSIVE Joined(_)
Joined(bullets) ==
  IF bullets = <<>> THEN <<>>
  ELSE IF Len(bullets) = 1 THEN bullets[1]
  ELSE bullets[1] \o <<" ">> \o Joined(Tail(bullets))

\* the summary with its whitespace collapsed and trimmed
Cleaned(summary) == Trim(CollapseSpaces(summary))

\* where a sentence of the cleaned summary ends and another follows: at a stop
\* that is followed by whitespace
SentenceEnds(cleaned) ==
  {i \in 1..(Len(cleaned) - 1) : cleaned[i] \in {".", "?", "!"} /\ cleaned[i + 1] = " "}

\* the number of sentences of the cleaned summary
SentenceCount(cleaned) ==
  IF cleaned = <<>> THEN 0 ELSE Cardinality(SentenceEnds(cleaned)) + 1

\* C16: the condenser returns at most maxBullets bullets, none empty; none for
\* a summary of whitespace only; and for a summary of at least maxBullets
\* sentences exactly maxBullets bullets which are whole sentences (each ends
\* at a sentence end, none holds one inside) and, joined, spell the start of the
\* cleaned summary: the first maxBullets sentences, in order, stops kept.
C16_CondenserBoundAndPrefix ==
  call.fn = "makeSummaryBullets" /\ call.returned =>
    LET cleaned == Cleaned(call.summary)
        out == call.out
        joined == Joined(out)
    IN  /\ Len(out) <= call.maxBullets
        /\ \A k \in 1..Len(out) : out[k] # <<>>
        /\ (\A i \in 1..Len(call.summary) : call.summary[i] \in {" ", "\n", "\t"})
             => out = <<>>
        /\ SentenceCount(cleaned) >= call.maxBullets =>
             /\ Len(out) = call.maxBullets
             /\ joined = SubSeq(cleaned, 1, Len(joined))
             /\ \A k \in 1..Len(out) : SentenceEnds(out[k]) = {}
             /\ Len(joined) < Len(cleaned) => Len(joined) \in SentenceEnds(cleaned)

\* three sentences with whitespace around and between them, two bullets asked:
\* the first two sentences
C16_Witness ==
  /\ call.fn = "makeSummaryBullets" /\ call.returned
  /\ call.summary = <<"N","o","?", "\n", "H","i",".", " ", "a","!">>
  /\ call.maxBullets = 2
  /\ call.out = << <<"N","o","?">>, <<"H","i",".">> >>

\* C17: with maxBullets = 2 a summary that is one sentence longer than
\* LongSentence characters when cleaned comes back as two non-empty bullets, cut
\* at the first space at or after the midpoint floor(length / 2), which joined
\* by one space give the cleaned sentence; it comes back whole when there is no
\* space at or after the midpoint, and when it is not longer than LongSentence.
C17_CondenserBisection ==
  (call.fn = "makeSummaryBullets" /\ call.returned /\ call.maxBullets = 2
     /\ SentenceCount(Cleaned(call.summary)) = 1) =>
    LET cleaned == Cleaned(call.summary)
        out == call.out
        \* positions, counted from 1, of the spaces at or after the midpoint
        spaces == {p \in 1..Len(cleaned) :
                     cleaned[p] = " " /\ p - 1 >= Len(cleaned) \div 2}
    IN  IF Len(cleaned) > 180 /\ spaces # {}
        THEN LET p == CHOOSE q \in spaces : \A o \in spaces : q <= o
             IN  /\ Len(out) = 2
                 /\ out[1] # <<>> /\ out[2] # <<>>
                 /\ out[1] = SubSeq(cleaned, 1, p - 1)
                 /\ out[2] = SubSeq(cleaned, p + 1, Len(cleaned))
                 /\ out[1] \o <<" ">> \o out[2] = cleaned
        ELSE out = << cleaned >>

\* a sentence of 184 characters with a space before the midpoint and one after
\* it: cut at the one after it
C17_Witness ==
  /\ call.fn = "makeSummaryBullets" /\ call.returned /\ call.maxBullets = 2
  /\ Len(Cleaned(call.summary)) = 184
  /\ Len(call.out) = 2
  /\ Len(call.out[1]) = 182 /\ call.out[2] = <<"c">>

(***************************************************************************)
(* C18: what is marked seen, and when.                                     *)
(***************************************************************************)
\* C18: upstashSetEx is called only after chat.postMessage answered ok, once
\* for every item of the message that was sent and in their order, with the
\* key of the item's URL, the value "1" and ex = 604800; a write that succeeds
\* leaves that entry, and the entries of the other keys the run looked up
\* (articles it skipped as seen) answer what they answered before.
C18_MarkSeenScope ==
  \A r \in Runs :
    LET s == run[r]
    IN  /\ ~DigestSent(s) => (s.sets = <<>> /\ s.writes = <<>>)
        /\ s.sets # <<>> =>
             \E j \in 1..Len(slack) :
               LET blocks == slack[j].message.blocks
               IN  /\ blocks = DigestMessage(s.fresh).blocks
                   /\ Len(s.sets) = Len(blocks)
                   /\ Len(s.writes) = Len(blocks)
                   /\ \A i \in 1..Len(blocks) :
                        s.sets[i] = [key |-> sha1Hex(blocks[i].url), value |-> "1",
                                     ex |-> 604800]
        /\ \A i \in 1..Len(s.sets) :
             s.writes[i] = "ok" => cache[s.sets[i].key] = [val |-> "1", exp |-> now + 604800]
        /\ \A i \in 1..Len(s.reads) :
             (\A k \in 1..Len(s.sets) : s.sets[k].key # s.reads[i].key) =>
               StoredResult(cache, s.reads[i].key, now) = s.reads[i].stored

\* three articles fetched: one below MIN_SCORE, one skipped as seen, one posted
\* and marked; the marker of the one skipped is as it was
C18_Witness ==
  LET s == run[1]
  IN  /\ s.pc = "done" /\ Len(s.items) = 3 /\ Len(s.scored) = 2 /\ Len(s.reads) = 2
      /\ HasTrue(s, 1) /\ s.reads[2].pushed
      /\ s.reads[1].key # s.reads[2].key
      /\ s.sets = << [key |-> s.reads[2].key, value |-> "1", ex |-> 604800] >>
      /\ s.writes = << "ok" >>
      /\ cache[s.reads[1].key].val = s.reads[1].stored

(***************************************************************************)
(* C19: invocations that overlap.                                          *)
(***************************************************************************)
\* one of the two invocations arrived while the other was under way
Overlapped(r, q) == q \in run[r].among \/ r \in run[q].among

\* every cache call the invocation made so far succeeded
CacheCallsOk(s) ==
  /\ \A i \in 1..Len(s.reads) : s.reads[i].outcome = "ok"
  /\ \A i \in 1..Len(s.writes) : s.writes[i] = "ok"

\* both invocations delivered a digest, and the two digests share an article
BothPosted(r, q) ==
  /\ r # q /\ DigestSent(run[r]) /\ DigestSent(run[q])
  /\ \E i \in 1..Len(run[r].fresh), j \in 1..Len(run[q].fresh) :
       run[r].fresh[i]._redisKey = run[q].fresh[j]._redisKey

\* C19: two invocations whose cache calls all succeed deliver the same article
\* inside the retention window only when they overlapped, and then each of
\* them had read the key of the article as absent.
C19_OverlapOnlyDuplicates ==
  \A r, q \in Runs :
    (BothPosted(r, q) /\ CacheCallsOk(run[r]) /\ CacheCallsOk(run[q])
       /\ run[r].sets # <<>> /\ run[q].sets # <<>>) =>
      /\ Overlapped(r, q)
      /\ \A i \in PushedIdx(run[r]) : run[r].reads[i].stored = JsNull
      /\ \A i \in PushedIdx(run[q]) : run[q].reads[i].stored = JsNull

\* the interleaving: the second invocation arrives while the first is under
\* way, both read the key as absent, and both deliver the article
C19_Witness ==
  /\ BothPosted(1, 2) /\ CacheCallsOk(run[1]) /\ CacheCallsOk(run[2])
  /\ run[1].sets # <<>> /\ run[2].sets # <<>>
  /\ Overlapped(1, 2)
  /\ Len(slack) = 2 /\ slack[1].message.blocks[1].url = slack[2].message.blocks[1].url
  /\ run[1].reads[1].stored = JsNull /\ run[2].reads[1].stored = JsNull

(***************************************************************************)
(* C20: seen by presence.                                                  *)
(***************************************************************************)
\* C20: an article whose lookup was answered is skipped as seen exactly when
\* the result field of the answer is not null, that is when the store holds an
\* entry for its key, whatever the value of the entry (the empty string too).
C20_SeenByPresence ==
  \A r \in Runs :
    LET s == run[r]
    IN  \A i \in 1..Len(s.reads) :
          s.reads[i].outcome = "ok" =>
            /\ s.reads[i].seen = s.reads[i].stored
            /\ (s.reads[i].stored # JsNull) <=> ~s.reads[i].pushed

====
